---- MODULE Spec2Model ----
(***************************************************************************)
(* A model of src/files.js: the Files class (a glob pattern plus the       *)
(* ordered list of paths it matched) and its operations on a filesystem.   *)
(*                                                                         *)
(* A JavaScript string is a sequence of one-character strings, so that     *)
(* lastIndexOf, path.join, path.basename and path.dirname are computed on  *)
(* characters as Node computes them.  The filesystem is a tree below the   *)
(* working directory: a function from locations (sequences of segment      *)
(* names) to nodes.                                                        *)
(***************************************************************************)
EXTENDS Integers, Sequences, FiniteSets, TLC

VARIABLES
    fs,        \* the filesystem: location -> node
    glob,      \* this.glob
    files,     \* this.files
    factory,   \* which static factory built the instance
    op,        \* the last operation called ("new" right after construction)
    ok,        \* whether the last operation returned (FALSE: it threw)
    ret,       \* what the last operation returned
    arg,       \* the arguments of the last operation
    fs0,       \* the filesystem when the last operation was called
    files0,    \* this.files when the last operation was called
    calls,     \* the entries the last batch operation invoked its primitive on
    handled,   \* whether the last operation called its handler
    aborted,   \* whether some delete or moveTo threw since construction
    lenient,   \* the build's fs-extra: whether moving an entry onto itself is a no-op
    count      \* the calls made since construction, counted up to MaxCalls

vars == <<fs, glob, files, factory, op, ok, ret, arg, fs0, files0, calls,
          handled, aborted, lenient, count>>

----------------------------------------------------------------------------
(* Strings *)

Max(S) == CHOOSE x \in S : \A y \in S : y <= x

\* All sequences over A of length at most n.
RECURSIVE StringsUpTo(_, _)
StringsUpTo(A, n) ==
    IF n = 0 THEN {<<>>}
    ELSE LET shorter == StringsUpTo(A, n - 1)
         IN  shorter \cup {Append(s, c) : s \in {t \in shorter : Len(t) = n - 1}, c \in A}

\* String.prototype.lastIndexOf for a one-character needle: a 0-based index, or -1.
LastIndexOf(s, c) ==
    LET at == {i \in 1..Len(s) : s[i] = c}
    IN  IF at = {} THEN -1 ELSE Max(at) - 1

\* s.split("/"): the segments between separators, the empty ones included.
RECURSIVE Split(_)
Split(s) ==
    LET at == {i \in 1..Len(s) : s[i] = "/"}
    IN  IF at = {} THEN <<s>>
        ELSE LET i == Max(at)
             IN  Append(Split(SubSeq(s, 1, i - 1)), SubSeq(s, i + 1, Len(s)))

\* Segments joined by "/".
RECURSIVE JoinSegs(_)
JoinSegs(segs) ==
    IF segs = <<>> THEN <<>>
    ELSE IF Len(segs) = 1 THEN segs[1]
    ELSE segs[1] \o <<"/">> \o JoinSegs(Tail(segs))

\* Node's normalizeString: "" and "." segments dropped, ".." removing the
\* segment before it, or kept when there is none and the path is relative.
RECURSIVE NormalizeSegs(_, _, _)
NormalizeSegs(segs, allowAboveRoot, acc) ==
    IF segs = <<>> THEN acc
    ELSE LET s == Head(segs)
             next ==
                 IF s = <<>> \/ s = <<".">> THEN acc
                 ELSE IF s = <<".", ".">>
                 THEN IF acc # <<>> /\ acc[Len(acc)] # <<".", ".">>
                      THEN SubSeq(acc, 1, Len(acc) - 1)
                      ELSE IF allowAboveRoot THEN Append(acc, s) ELSE acc
                 ELSE Append(acc, s)
         IN  NormalizeSegs(Tail(segs), allowAboveRoot, next)

\* path.normalize (POSIX).
Normalize(p) ==
    IF p = <<>> THEN <<".">>
    ELSE LET isAbsolute == p[1] = "/"
             trailingSeparator == p[Len(p)] = "/"
             body == JoinSegs(NormalizeSegs(Split(p), ~isAbsolute, <<>>))
         IN  IF body = <<>>
             THEN IF isAbsolute THEN <<"/">>
                  ELSE IF trailingSeparator THEN <<".", "/">> ELSE <<".">>
             ELSE LET tailed == IF trailingSeparator THEN Append(body, "/") ELSE body
                  IN  IF isAbsolute THEN <<"/">> \o tailed ELSE tailed

\* path.join(a, b) (POSIX): the non-empty arguments joined by "/", normalized.
PathJoin(a, b) ==
    IF a = <<>> /\ b = <<>> THEN <<".">>
    ELSE IF a = <<>> THEN Normalize(b)
    ELSE IF b = <<>> THEN Normalize(a)
    ELSE Normalize(a \o <<"/">> \o b)

\* path.basename(p) (POSIX): the last segment, trailing separators ignored.
Basename(p) ==
    LET solid == {i \in 1..Len(p) : p[i] # "/"}
    IN  IF solid = {} THEN <<>>
        ELSE LET end == Max(solid)
                 before == {i \in 1..end : p[i] = "/"}
                 start == IF before = {} THEN 1 ELSE Max(before) + 1
             IN  SubSeq(p, start, end)

\* path.dirname(p) (POSIX).
Dirname(p) ==
    IF p = <<>> THEN <<".">>
    ELSE LET hasRoot == p[1] = "/"
             cut == {i \in 2..Len(p) :
                        p[i] = "/" /\ \E j \in (i + 1)..Len(p) : p[j] # "/"}
         IN  IF cut = {} THEN (IF hasRoot THEN <<"/">> ELSE <<".">>)
             ELSE IF hasRoot /\ Max(cut) = 2 THEN <<"/", "/">>
             ELSE SubSeq(p, 1, Max(cut) - 1)

----------------------------------------------------------------------------
(* Destination of a move or a copy *)

targetDirectoryWithTrailingSlash(pDestination, pFilePath) ==
    IF LastIndexOf(pDestination, "/") = Len(pDestination) - 1
    THEN PathJoin(pDestination, Basename(pFilePath))
    ELSE pDestination

----------------------------------------------------------------------------
(* The filesystem *)

\* The segment names of the modelled tree, in directory-listing order.
NameOrder == << <<"a">>, <<"b">> >>
Names == {NameOrder[i] : i \in DOMAIN NameOrder}

\* The working directory, and the locations of the tree below it.
Root == <<>>
Locs == {<<n>> : n \in Names} \cup {<<n, m>> : n \in Names, m \in Names}

NoEnt == [k |-> "none"]
Dir == [k |-> "dir"]
File(data) == [k |-> "file", d |-> data]

IsPrefix(a, b) == Len(a) <= Len(b) /\ SubSeq(b, 1, Len(a)) = a
Parent(l) == SubSeq(l, 1, Len(l) - 1)
Rebase(l, from, to) == to \o SubSeq(l, Len(from) + 1, Len(l))

\* Where a path string leads, relative to the working directory.  A location
\* outside Locs \cup {Root} (an absolute path, one above the working directory,
\* one deeper than the tree) is outside the model.
Loc(p) ==
    IF p # <<>> /\ p[1] = "/"
    THEN << <<"/">> >> \o NormalizeSegs(Split(p), FALSE, <<>>)
    ELSE NormalizeSegs(Split(p), TRUE, <<>>)

Known(l) == l = Root \/ l \in Locs
At(f, l) == IF l = Root THEN Dir ELSE f[l]
Kind(f, l) == At(f, l).k

\* What a primitive answers: whether it returned, the filesystem it left, and
\* whether it reached outside the modelled tree.
Done(f) == [ok |-> TRUE, fs |-> f, out |-> FALSE]
Threw(f) == [ok |-> FALSE, fs |-> f, out |-> FALSE]
Outside(f) == [ok |-> FALSE, fs |-> f, out |-> TRUE]

\* fs.existsSync
existsSync(f, p) == Kind(f, Loc(p)) # "none"

\* mkdir -p of a location: every missing ancestor and the location itself
\* become directories; a file on the way is an error.
Mkdirp(f, l) ==
    IF ~Known(l) THEN Outside(f)
    ELSE IF \E m \in Locs : IsPrefix(m, l) /\ f[m].k = "file" THEN Threw(f)
    ELSE Done([m \in Locs |-> IF IsPrefix(m, l) THEN Dir ELSE f[m]])

\* fse.ensureDirSync
ensureDirSync(f, p) == Mkdirp(f, Loc(p))

\* fse.removeSync (rm -rf): the entry and everything below it; a missing
\* entry is no error.
removeSync(f, p) ==
    LET l == Loc(p)
    IN  IF l = Root \/ ~Known(l) THEN Outside(f)
        ELSE Done([m \in Locs |-> IF IsPrefix(l, m) THEN NoEnt ELSE f[m]])

\* Whether the tree at s, put at d, stays inside the modelled tree.
Fits(f, s, d) ==
    \A m \in Locs : IsPrefix(s, m) /\ f[m].k # "none" => Rebase(m, s, d) \in Locs

\* A move that forgets to remove the source: what moveSync must not be.
moveSync_keepsSource(f, src, dest, selfMoveOk) ==
    LET s == Loc(src)
        d == Loc(dest)
    IN  IF ~Known(s) \/ ~Known(d) \/ s = Root THEN Outside(f)
        ELSE IF Kind(f, s) = "none" \/ IsPrefix(s, d) \/ d = Root THEN Threw(f)
        ELSE IF ~Mkdirp(f, Parent(d)).ok \/ Kind(f, d) # "none" THEN Threw(f)
        ELSE IF ~Fits(f, s, d) THEN Outside(f)
        ELSE LET g == Mkdirp(f, Parent(d)).fs
             IN  Done([m \in Locs |->
                        IF IsPrefix(d, m)
                        THEN (IF Rebase(m, d, s) \in Locs THEN f[Rebase(m, d, s)] ELSE NoEnt)
                        ELSE g[m]])

\* fse.moveSync(src, dest), overwrite off.  A move of an entry onto itself has
\* been answered two ways by fs-extra (a silent no-op, and an error): selfMoveOk
\* says which one this build gives.
moveSync(f, src, dest, selfMoveOk) ==
    LET s == Loc(src)
        d == Loc(dest)
    IN  IF ~Known(s) \/ ~Known(d) \/ s = Root THEN Outside(f)
        ELSE IF Kind(f, s) = "none" THEN Threw(f)
        ELSE IF s = d THEN (IF selfMoveOk THEN Done(f) ELSE Threw(f))
        ELSE IF IsPrefix(s, d) THEN Threw(f)
        ELSE IF d = Root THEN Threw(f)
        ELSE IF ~Mkdirp(f, Parent(d)).ok THEN Threw(f)
        ELSE IF Kind(f, d) # "none" THEN Threw(f)
        ELSE IF ~Fits(f, s, d) THEN Outside(f)
        ELSE LET g == Mkdirp(f, Parent(d)).fs
             IN  Done([m \in Locs |->
                        IF IsPrefix(d, m)
                        THEN (IF Rebase(m, d, s) \in Locs THEN f[Rebase(m, d, s)] ELSE NoEnt)
                        ELSE IF IsPrefix(s, m) THEN NoEnt
                        ELSE g[m]])

\* One entry of a copy: a file over a missing entry or a file, a directory
\* over a missing entry or a directory.
CopyEntry(r, s, d) ==
    IF ~r.ok THEN r
    ELSE IF Kind(r.fs, s) = "none" THEN r
    ELSE IF ~Known(d) \/ d = Root THEN Outside(r.fs)
    ELSE IF Kind(r.fs, s) = "file"
    THEN IF Kind(r.fs, d) = "dir" THEN Threw(r.fs)
         ELSE Done([r.fs EXCEPT ![d] = r.fs[s]])
    ELSE IF Kind(r.fs, d) = "file" THEN Threw(r.fs)
         ELSE Done([r.fs EXCEPT ![d] = Dir])

\* The children of s copied below d, in directory-listing order.
RECURSIVE CopyChildren(_, _, _, _)
CopyChildren(r, s, d, i) ==
    IF i > Len(NameOrder) THEN r
    ELSE IF Append(s, NameOrder[i]) \notin Locs THEN r
    ELSE CopyChildren(CopyEntry(r, Append(s, NameOrder[i]), Append(d, NameOrder[i])),
                      s, d, i + 1)

\* fse.copySync(src, dest), overwrite on: parents of dest are created, a file
\* replaces a file, a directory is merged into a directory.
copySync(f, src, dest) ==
    LET s == Loc(src)
        d == Loc(dest)
    IN  IF ~Known(s) \/ ~Known(d) \/ s = Root THEN Outside(f)
        ELSE IF Kind(f, s) = "none" THEN Threw(f)
        ELSE IF s = d THEN Threw(f)
        ELSE IF IsPrefix(s, d) THEN Threw(f)
        ELSE IF d = Root THEN Threw(f)
        ELSE IF ~Mkdirp(f, Parent(d)).ok THEN Threw(f)
        ELSE LET top == CopyEntry(Mkdirp(f, Parent(d)), s, d)
             IN  IF Kind(f, s) = "dir" THEN CopyChildren(top, s, d, 1) ELSE top

\* fs.lstatSync(p).isFile() and .isDirectory()
isFile(f, p) == Kind(f, Loc(p)) = "file"
isDirectory(f, p) == Kind(f, Loc(p)) = "dir"

----------------------------------------------------------------------------
(* glob.sync and the constructor *)

\* One pattern segment against one name: "*" stands for any run of characters,
\* and a name starting with "." needs a pattern that starts with ".".
RECURSIVE Wild(_, _)
Wild(pat, name) ==
    IF pat = <<>> THEN name = <<>>
    ELSE IF Head(pat) = "*"
    THEN \E n \in 0..Len(name) : Wild(Tail(pat), SubSeq(name, n + 1, Len(name)))
    ELSE name # <<>> /\ Head(pat) = Head(name) /\ Wild(Tail(pat), Tail(name))

SegMatch(pat, name) ==
    /\ name # <<>> /\ Head(name) = "." => pat # <<>> /\ Head(pat) = "."
    /\ Wild(pat, name)

\* The locations of the tree in the order glob.sync lists them (sorted).
LocOrder ==
    LET n == Len(NameOrder)
    IN  [k \in 1..(n * (n + 1)) |->
            LET i == ((k - 1) \div (n + 1)) + 1
                j == (k - 1) % (n + 1)
            IN  IF j = 0 THEN <<NameOrder[i]>> ELSE <<NameOrder[i], NameOrder[j]>>]

\* glob.sync(pGlob): the existing entries the pattern matches, sorted.
globSync(f, pGlob) ==
    LET segs == Split(pGlob)
        hit(l) == /\ Len(l) = Len(segs)
                  /\ \A i \in 1..Len(l) : SegMatch(segs[i], l[i])
                  /\ \A m \in Locs : IsPrefix(m, l) => f[m].k # "none"
        hits == SelectSeq(LocOrder, hit)
    IN  [i \in 1..Len(hits) |-> JoinSegs(hits[i])]

\* A filter that keeps the wrong kind.
onlyExistingFiles_swapped(f, list) ==
    LET keep(file) == isDirectory(f, file) IN SelectSeq(list, keep)

onlyExistingFiles(f, list) ==
    LET keep(file) == isFile(f, file) IN SelectSeq(list, keep)

onlyExistingFolders(f, list) ==
    LET keep(file) == isDirectory(f, file) IN SelectSeq(list, keep)

\* new Files(pGlob, pNew, pOnlyFiles, pOnlyFolders): the value of this.files.
constructor(f, pGlob, pNew, pOnlyFiles, pOnlyFolders) ==
    LET matched == IF pNew THEN <<>> ELSE globSync(f, pGlob)
        filtered == IF pOnlyFiles THEN onlyExistingFiles(f, matched) ELSE matched
    IN  IF pOnlyFolders THEN onlyExistingFolders(f, filtered) ELSE filtered

\* The four static factories.
Factories == {"getFiles", "getFolders", "any", "new"}
Build(f, pGlob, how) ==
    CASE how = "getFiles" -> constructor(f, pGlob, FALSE, TRUE, FALSE)
      [] how = "getFolders" -> constructor(f, pGlob, FALSE, FALSE, TRUE)
      [] how = "any" -> constructor(f, pGlob, FALSE, FALSE, FALSE)
      [] how = "new" -> constructor(f, pGlob, TRUE, FALSE, FALSE)

----------------------------------------------------------------------------
(* The batch operations.  Each answers a record: ok (it returned), out (it   *)
(* reached outside the modelled tree), fs, files (this.files afterwards),    *)
(* ret, calls (the entries its primitive was invoked on) and handled.        *)
(* fault is the entry at which the primitive fails with an I/O error (0: at  *)
(* none): permission denied, disk full.                                      *)

Undefined == <<"undefined">>
Null == <<"null">>

\* A JavaScript value as the state records it (an argument of a call, or what
\* it returned): its type, and the number, the characters or the list it holds.
Value(t, n, s, l) == [t |-> t, n |-> n, s |-> s, l |-> l]
UndefinedValue == Value("undefined", 0, <<>>, <<>>)
NullValue == Value("null", 0, <<>>, <<>>)
NumberValue(n) == Value("number", n, <<>>, <<>>)
BooleanValue(b) == Value(IF b THEN "true" ELSE "false", 0, <<>>, <<>>)
StringValue(s) == Value("string", 0, s, <<>>)
ArrayValue(l) == Value("array", 0, <<>>, l)
FunctionValue(h) == Value("function", 0, <<h>>, <<>>)

Outcome(r, list, value, n, called) ==
    [ok |-> r.ok, out |-> r.out, fs |-> r.fs, files |-> list, ret |-> value,
     calls |-> n, handled |-> called]

\* lines 185-190: this.files.map(file => fse.removeSync(file))
RECURSIVE deleteLoop(_, _, _, _)
deleteLoop(f, list, i, fault) ==
    IF i > Len(list) THEN [r |-> Done(f), n |-> Len(list)]
    ELSE IF i = fault THEN [r |-> Threw(f), n |-> i]
    ELSE LET r == removeSync(f, list[i])
         IN  IF ~r.ok THEN [r |-> r, n |-> i]
             ELSE deleteLoop(r.fs, list, i + 1, fault)

\* delete with the list cleared before the loop runs.
delete_clearsFirst(f, list, fault) ==
    LET run == deleteLoop(f, list, 1, fault)
    IN  Outcome(run.r, <<>>, IF run.r.ok THEN Len(list) ELSE Undefined,
                SubSeq(list, 1, run.n), FALSE)

\* delete with the count taken after the list is cleared.
delete_countsAfter(f, list, fault) ==
    LET run == deleteLoop(f, list, 1, fault)
    IN  Outcome(run.r, IF run.r.ok THEN <<>> ELSE list,
                IF run.r.ok THEN 0 ELSE Undefined,
                SubSeq(list, 1, run.n), FALSE)

delete(f, list, fault) ==
    LET run == deleteLoop(f, list, 1, fault)
    IN  Outcome(run.r, IF run.r.ok THEN <<>> ELSE list,
                IF run.r.ok THEN Len(list) ELSE Undefined,
                SubSeq(list, 1, run.n), FALSE)

\* lines 221-233: each file moved to its destination, which is pushed on newFiles
RECURSIVE moveLoop(_, _, _, _, _, _, _)
moveLoop(f, list, pDestination, selfMoveOk, i, fault, newFiles) ==
    IF i > Len(list) THEN [r |-> Done(f), n |-> Len(list), newFiles |-> newFiles]
    ELSE IF i = fault THEN [r |-> Threw(f), n |-> i, newFiles |-> newFiles]
    ELSE LET destination == targetDirectoryWithTrailingSlash(pDestination, list[i])
             r == moveSync(f, list[i], destination, selfMoveOk)
         IN  IF ~r.ok THEN [r |-> r, n |-> i, newFiles |-> newFiles]
             ELSE moveLoop(r.fs, list, pDestination, selfMoveOk, i + 1, fault,
                           Append(newFiles, destination))

\* moveTo that keeps the old list.
moveTo_keepsList(f, list, pDestination, selfMoveOk, fault) ==
    LET run == moveLoop(f, list, pDestination, selfMoveOk, 1, fault, <<>>)
    IN  Outcome(run.r, list, IF run.r.ok THEN Len(list) ELSE Undefined,
                SubSeq(list, 1, run.n), FALSE)

moveTo(f, list, pDestination, selfMoveOk, fault) ==
    LET run == moveLoop(f, list, pDestination, selfMoveOk, 1, fault, <<>>)
    IN  Outcome(run.r, IF run.r.ok THEN run.newFiles ELSE list,
                IF run.r.ok THEN Len(list) ELSE Undefined,
                SubSeq(list, 1, run.n), FALSE)

\* lines 253-262: each file copied to its destination
RECURSIVE copyLoop(_, _, _, _, _, _)
copyLoop(f, list, pDestination, i, fault, newFiles) ==
    IF i > Len(list) THEN [r |-> Done(f), n |-> Len(list), newFiles |-> newFiles]
    ELSE IF i = fault THEN [r |-> Threw(f), n |-> i, newFiles |-> newFiles]
    ELSE LET destination == targetDirectoryWithTrailingSlash(pDestination, list[i])
             r == copySync(f, list[i], destination)
         IN  IF ~r.ok THEN [r |-> r, n |-> i, newFiles |-> newFiles]
             ELSE copyLoop(r.fs, list, pDestination, i + 1, fault,
                           Append(newFiles, destination))

\* copyTo that stores the copies, as moveTo stores the moved files.
copyTo_storesCopies(f, list, pDestination, fault) ==
    LET run == copyLoop(f, list, pDestination, 1, fault, <<>>)
    IN  Outcome(run.r, IF run.r.ok THEN run.newFiles ELSE list,
                IF run.r.ok THEN Len(list) ELSE Undefined,
                SubSeq(list, 1, run.n), FALSE)

copyTo(f, list, pDestination, fault) ==
    LET run == copyLoop(f, list, pDestination, 1, fault, <<>>)
    IN  Outcome(run.r, list, IF run.r.ok THEN Len(list) ELSE Undefined,
                SubSeq(list, 1, run.n), FALSE)

\* line 339: this.files.map(file => fse.ensureDirSync(file))
RECURSIVE ensureLoop(_, _, _, _)
ensureLoop(f, list, i, fault) ==
    IF i > Len(list) THEN [r |-> Done(f), n |-> Len(list)]
    ELSE IF i = fault THEN [r |-> Threw(f), n |-> i]
    ELSE LET r == ensureDirSync(f, list[i])
         IN  IF ~r.ok THEN [r |-> r, n |-> i]
             ELSE ensureLoop(r.fs, list, i + 1, fault)

createFolders(f, pGlob, list, fault) ==
    IF Len(list) = 0
    THEN Outcome(IF fault = 0 THEN ensureDirSync(f, pGlob) ELSE Threw(f),
                 list, Undefined, <<>>, FALSE)
    ELSE LET run == ensureLoop(f, list, 1, fault)
         IN  Outcome(run.r, list, Undefined, SubSeq(list, 1, run.n), FALSE)

exists(f, list) == Outcome(Done(f), list, Len(list) > 0, <<>>, FALSE)

\* The handlers all() is tried with.
PathHandlers == {"basename", "dirname"}
PathHandler(h, file) == IF h = "basename" THEN Basename(file) ELSE Dirname(file)

all(f, list, pHandler) ==
    Outcome(Done(f), list, [i \in 1..Len(list) |-> PathHandler(pHandler, list[i])],
            <<>>, Len(list) > 0)

----------------------------------------------------------------------------
(* Encoding.  A string is a sequence of UTF-16 code units: "HS" and "LS"    *)
(* name a high and a low surrogate unit, "FFFD" the replacement character,  *)
(* every other unit is a character of its own.  A file holds the UTF-8 form,*)
(* written as the sequence of the scalar values it encodes ("PAIR" being    *)
(* the value that the pair HS LS encodes).                                  *)

\* Buffer.from(s, "utf-8"): a surrogate pair is one value, and a surrogate
\* without its partner becomes the replacement character.
RECURSIVE Encode(_)
Encode(s) ==
    IF s = <<>> THEN <<>>
    ELSE IF Head(s) = "HS" /\ Len(s) > 1 /\ s[2] = "LS"
    THEN <<"PAIR">> \o Encode(SubSeq(s, 3, Len(s)))
    ELSE IF Head(s) \in {"HS", "LS"} THEN <<"FFFD">> \o Encode(Tail(s))
    ELSE <<Head(s)>> \o Encode(Tail(s))

\* buffer.toString("utf-8") of well-formed UTF-8.
RECURSIVE Decode(_)
Decode(d) ==
    IF d = <<>> THEN <<>>
    ELSE IF Head(d) = "PAIR" THEN <<"HS", "LS">> \o Decode(Tail(d))
    ELSE <<Head(d)>> \o Decode(Tail(d))

----------------------------------------------------------------------------
(* JSON.  A value is a number (its digits), a string, an array or an        *)
(* object (its members in property order).                                  *)

Num(digits) == [t |-> "num", v |-> digits]
Str(chars) == [t |-> "str", v |-> chars]
Arr(elems) == [t |-> "arr", v |-> elems]
Obj(members) == [t |-> "obj", v |-> members]

DecimalDigits == <<"0", "1", "2", "3", "4", "5", "6", "7", "8", "9">>
Digits == {DecimalDigits[i] : i \in DOMAIN DecimalDigits}
DigitValue(c) == (CHOOSE i \in DOMAIN DecimalDigits : DecimalDigits[i] = c) - 1
Whitespace == {" ", "\n"}
NoParse == [ok |-> FALSE]

\* The first index at or after i that holds no whitespace.
RECURSIVE SkipWs(_, _)
SkipWs(s, i) == IF i <= Len(s) /\ s[i] \in Whitespace THEN SkipWs(s, i + 1) ELSE i

\* The index after the run of digits that starts at i.
RECURSIVE DigitsEnd(_, _)
DigitsEnd(s, i) == IF i <= Len(s) /\ s[i] \in Digits THEN DigitsEnd(s, i + 1) ELSE i

\* An array index as a property key: "0", or digits with no leading zero.
IsIndexKey(key) ==
    /\ key # <<>>
    /\ \A i \in 1..Len(key) : key[i] \in Digits
    /\ Len(key) > 1 => key[1] # "0"

RECURSIVE DigitsLess(_, _)
DigitsLess(x, y) ==
    IF Len(x) # Len(y) THEN Len(x) < Len(y)
    ELSE IF x = <<>> THEN FALSE
    ELSE IF Head(x) # Head(y) THEN DigitValue(Head(x)) < DigitValue(Head(y))
    ELSE DigitsLess(Tail(x), Tail(y))

\* obj[key] = value in property order: an existing key keeps its place, a new
\* index key goes among the index keys in ascending order, any other new key
\* goes last.
RECURSIVE SetMember(_, _, _)
SetMember(members, key, value) ==
    IF members = <<>> THEN << <<key, value>> >>
    ELSE LET m == Head(members)
         IN  IF m[1] = key THEN << <<key, value>> >> \o Tail(members)
             ELSE IF IsIndexKey(key) /\ (~IsIndexKey(m[1]) \/ DigitsLess(key, m[1]))
             THEN << <<key, value>> >> \o members
             ELSE <<m>> \o SetMember(Tail(members), key, value)

\* A string literal starting at the quote at i: no escapes are modelled, and a
\* control character inside it is an error.
ParseString(s, i) ==
    LET close == {j \in (i + 1)..Len(s) : s[j] = "\""}
    IN  IF close = {} THEN NoParse
        ELSE LET j == CHOOSE c \in close : \A o \in close : c <= o
                 body == SubSeq(s, i + 1, j - 1)
             IN  IF \E n \in 1..Len(body) : body[n] = "\n" THEN NoParse
                 ELSE [ok |-> TRUE, v |-> body, i |-> j + 1]

RECURSIVE ParseValue(_, _)
RECURSIVE ParseElements(_, _, _)
RECURSIVE ParseMembers(_, _, _)

\* The value that starts at i, whitespace before it skipped.
ParseValue(s, at) ==
    LET i == SkipWs(s, at)
    IN  IF i > Len(s) THEN NoParse
        ELSE IF s[i] \in Digits
        THEN LET j == IF s[i] = "0" THEN i + 1 ELSE DigitsEnd(s, i)
             IN  [ok |-> TRUE, v |-> Num(SubSeq(s, i, j - 1)), i |-> j]
        ELSE IF s[i] = "\""
        THEN LET r == ParseString(s, i)
             IN  IF r.ok THEN [ok |-> TRUE, v |-> Str(r.v), i |-> r.i] ELSE NoParse
        ELSE IF s[i] = "["
        THEN LET j == SkipWs(s, i + 1)
             IN  IF j <= Len(s) /\ s[j] = "]"
                 THEN [ok |-> TRUE, v |-> Arr(<<>>), i |-> j + 1]
                 ELSE ParseElements(s, j, <<>>)
        ELSE IF s[i] = "{"
        THEN LET j == SkipWs(s, i + 1)
             IN  IF j <= Len(s) /\ s[j] = "}"
                 THEN [ok |-> TRUE, v |-> Obj(<<>>), i |-> j + 1]
                 ELSE ParseMembers(s, j, <<>>)
        ELSE NoParse

\* value (, value)* ]
ParseElements(s, at, acc) ==
    LET r == ParseValue(s, at)
    IN  IF ~r.ok THEN NoParse
        ELSE LET j == SkipWs(s, r.i)
             IN  IF j > Len(s) THEN NoParse
                 ELSE IF s[j] = "]"
                 THEN [ok |-> TRUE, v |-> Arr(Append(acc, r.v)), i |-> j + 1]
                 ELSE IF s[j] = "," THEN ParseElements(s, j + 1, Append(acc, r.v))
                 ELSE NoParse

\* string : value (, string : value)* }
ParseMembers(s, at, acc) ==
    LET i == SkipWs(s, at)
    IN  IF i > Len(s) \/ s[i] # "\"" THEN NoParse
        ELSE LET key == ParseString(s, i)
             IN  IF ~key.ok THEN NoParse
                 ELSE LET c == SkipWs(s, key.i)
                      IN  IF c > Len(s) \/ s[c] # ":" THEN NoParse
                          ELSE LET r == ParseValue(s, c + 1)
                               IN  IF ~r.ok THEN NoParse
                                   ELSE LET j == SkipWs(s, r.i)
                                            now == SetMember(acc, key.v, r.v)
                                        IN  IF j > Len(s) THEN NoParse
                                            ELSE IF s[j] = "}"
                                            THEN [ok |-> TRUE, v |-> Obj(now), i |-> j + 1]
                                            ELSE IF s[j] = ","
                                            THEN ParseMembers(s, j + 1, now)
                                            ELSE NoParse

\* JSON.parse(s): [ok |-> FALSE] stands for the SyntaxError.
JSONparse(s) ==
    LET r == ParseValue(s, 1)
    IN  IF r.ok /\ SkipWs(s, r.i) > Len(s) THEN [ok |-> TRUE, v |-> r.v] ELSE NoParse

RECURSIVE Repeat(_, _)
Repeat(s, n) == IF n = 0 THEN <<>> ELSE s \o Repeat(s, n - 1)

RECURSIVE Stringify(_, _, _)
RECURSIVE StringifyList(_, _, _, _)

\* The items of an array or the members of an object, separated.
StringifyList(items, isObject, gap, indent) ==
    IF items = <<>> THEN <<>>
    ELSE LET item == Head(items)
             text == IF isObject
                     THEN <<"\"">> \o item[1] \o <<"\"", ":">>
                          \o (IF gap = <<>> THEN <<>> ELSE <<" ">>)
                          \o Stringify(item[2], gap, indent)
                     ELSE Stringify(item, gap, indent)
             sep == IF Len(items) = 1 THEN <<>>
                    ELSE IF gap = <<>> THEN <<",">>
                    ELSE <<",", "\n">> \o indent
         IN  text \o sep \o StringifyList(Tail(items), isObject, gap, indent)

\* SerializeJSONProperty: gap is the indentation unit, indent the current one.
Stringify(v, gap, indent) ==
    IF v.t = "num" THEN v.v
    ELSE IF v.t = "str" THEN <<"\"">> \o v.v \o <<"\"">>
    ELSE LET open == IF v.t = "arr" THEN <<"[">> ELSE <<"{">>
             close == IF v.t = "arr" THEN <<"]">> ELSE <<"}">>
             deeper == indent \o gap
         IN  IF v.v = <<>> THEN open \o close
             ELSE IF gap = <<>>
             THEN open \o StringifyList(v.v, v.t = "obj", gap, deeper) \o close
             ELSE open \o <<"\n">> \o deeper
                  \o StringifyList(v.v, v.t = "obj", gap, deeper)
                  \o <<"\n">> \o indent \o close

\* JSON.stringify(v, null, pSpaces): pSpaces is a number of spaces, or null.
JSONstringify(v, pSpaces) ==
    Stringify(v, IF pSpaces.t = "number" THEN Repeat(<<" ">>, pSpaces.n) ELSE <<>>, <<>>)

----------------------------------------------------------------------------
(* The content operations, all on the file at this.glob.  fault is the      *)
(* filesystem call that fails with an I/O error (0: none).                  *)

\* fs.writeFileSync(p, content): the file is created or truncated.
writeFileSync(f, p, content) ==
    LET l == Loc(p)
    IN  IF ~Known(l) THEN Outside(f)
        ELSE IF Kind(f, l) = "dir" \/ Kind(f, Parent(l)) # "dir" THEN Threw(f)
        ELSE Done([f EXCEPT ![l] = File(Encode(content))])

\* fs.appendFileSync(p, content): the file is created or extended.
appendFileSync(f, p, content) ==
    LET l == Loc(p)
    IN  IF ~Known(l) THEN Outside(f)
        ELSE IF Kind(f, l) = "dir" \/ Kind(f, Parent(l)) # "dir" THEN Threw(f)
        ELSE IF Kind(f, l) = "none" THEN Done([f EXCEPT ![l] = File(Encode(content))])
        ELSE Done([f EXCEPT ![l] = File(f[l].d \o Encode(content))])

read(f, pGlob, list, fault) ==
    LET l == Loc(pGlob)
    IN  IF ~Known(l) THEN Outcome(Outside(f), list, Undefined, <<>>, FALSE)
        ELSE IF ~existsSync(f, pGlob) THEN Outcome(Done(f), list, Null, <<>>, FALSE)
        ELSE IF fault # 0 \/ Kind(f, l) = "dir"
        THEN Outcome(Threw(f), list, Undefined, <<>>, FALSE)
        ELSE Outcome(Done(f), list, Decode(f[l].d), <<>>, FALSE)

\* write that skips the truncation: the new content lands after the old.
write_appends(f, pGlob, list, pContent, fault) ==
    LET made == IF fault = 1 THEN Threw(f) ELSE ensureDirSync(f, Dirname(pGlob))
        wrote == IF ~made.ok THEN made
                 ELSE IF fault = 2 THEN Threw(made.fs)
                 ELSE appendFileSync(made.fs, pGlob, pContent)
    IN  Outcome(wrote, list, Undefined, <<>>, FALSE)

write(f, pGlob, list, pContent, fault) ==
    LET made == IF fault = 1 THEN Threw(f) ELSE ensureDirSync(f, Dirname(pGlob))
        wrote == IF ~made.ok THEN made
                 ELSE IF fault = 2 THEN Threw(made.fs)
                 ELSE writeFileSync(made.fs, pGlob, pContent)
    IN  Outcome(wrote, list, Undefined, <<>>, FALSE)

\* append that puts the newline first whenever it is asked for.
append_alwaysNewline(f, pGlob, list, pContent, pNewLine, fault) ==
    LET made == IF fault = 1 THEN Threw(f) ELSE ensureDirSync(f, Dirname(pGlob))
        before == IF ~pNewLine THEN <<>> ELSE <<"\n">>
        wrote == IF ~made.ok THEN made
                 ELSE IF fault = 2 THEN Threw(made.fs)
                 ELSE appendFileSync(made.fs, pGlob, before \o pContent)
    IN  Outcome(wrote, list, Undefined, <<>>, FALSE)

append(f, pGlob, list, pContent, pNewLine, fault) ==
    LET made == IF fault = 1 THEN Threw(f) ELSE ensureDirSync(f, Dirname(pGlob))
        before == IF made.ok /\ ~made.out /\ Known(Loc(pGlob))
                     /\ (~existsSync(made.fs, pGlob) \/ ~pNewLine)
                  THEN <<>> ELSE <<"\n">>
        wrote == IF ~made.ok THEN made
                 ELSE IF fault = 2 THEN Threw(made.fs)
                 ELSE appendFileSync(made.fs, pGlob, before \o pContent)
    IN  Outcome(wrote, list, Undefined, <<>>, FALSE)

\* The handlers alter() is tried with: content is null when the file is absent.
\* "blank" is c => "", "initial" is c => (c || "").slice(0, 1) + "a".
TextHandlers == {"blank", "initial"}
TextHandler(h, content) ==
    IF h = "blank" THEN <<>>
    ELSE (IF content = Null \/ content = <<>> THEN <<>> ELSE <<Head(content)>>) \o <<"a">>

alter(f, pGlob, list, pHandler, fault) ==
    LET got == read(f, pGlob, list, IF fault = 1 THEN 1 ELSE 0)
    IN  IF ~got.ok THEN got
        ELSE LET put == write(f, pGlob, list, TextHandler(pHandler, got.ret),
                              IF fault > 1 THEN fault - 1 ELSE 0)
             IN  [put EXCEPT !.handled = TRUE]

\* The own enumerable properties of a value, as the object spread {...v} copies them.
RECURSIVE IndexKey(_)
IndexKey(n) ==
    IF n < Len(DecimalDigits) THEN <<DecimalDigits[n + 1]>>
    ELSE IndexKey(n \div Len(DecimalDigits)) \o <<DecimalDigits[(n % Len(DecimalDigits)) + 1]>>

Spread(v) ==
    IF v.t = "obj" THEN v.v
    ELSE IF v.t = "arr" THEN [i \in 1..Len(v.v) |-> <<IndexKey(i - 1), v.v[i]>>]
    ELSE IF v.t = "str" THEN [i \in 1..Len(v.v) |-> <<IndexKey(i - 1), Str(<<v.v[i]>>)>>]
    ELSE <<>>

\* The handlers alterJSON() is tried with: obj => obj and obj => ({...obj, k: 1}).
JsonHandlers == {"same", "addK"}
JsonHandler(h, v) ==
    IF h = "same" THEN v ELSE Obj(SetMember(Spread(v), <<"k">>, Num(<<"1">>)))

\* alterJSON that writes the old content back when it cannot be parsed.
alterJSON_swallowsError(f, pGlob, list, pHandler, pSpaces, fault) ==
    LET got == read(f, pGlob, list, IF fault = 1 THEN 1 ELSE 0)
    IN  IF ~got.ok THEN got
        ELSE IF got.ret = Null THEN [got EXCEPT !.ok = FALSE, !.ret = Undefined]
        ELSE LET parsed == JSONparse(got.ret)
                 text == IF parsed.ok
                         THEN JSONstringify(JsonHandler(pHandler, parsed.v), pSpaces)
                         ELSE got.ret
                 put == write(f, pGlob, list, text, IF fault > 1 THEN fault - 1 ELSE 0)
             IN  [put EXCEPT !.handled = parsed.ok]

alterJSON(f, pGlob, list, pHandler, pSpaces, fault) ==
    LET got == read(f, pGlob, list, IF fault = 1 THEN 1 ELSE 0)
    IN  IF ~got.ok THEN got
        ELSE IF got.ret = Null THEN [got EXCEPT !.ok = FALSE, !.ret = Undefined]
        ELSE LET parsed == JSONparse(got.ret)
             IN  IF ~parsed.ok THEN [got EXCEPT !.ok = FALSE, !.ret = Undefined]
                 ELSE LET text == JSONstringify(JsonHandler(pHandler, parsed.v), pSpaces)
                          put == write(f, pGlob, list, text,
                                       IF fault > 1 THEN fault - 1 ELSE 0)
                      IN  [put EXCEPT !.handled = TRUE]

----------------------------------------------------------------------------
(* The state machine *)

\* The trees an instance may be constructed on: every entry's parent is a
\* directory, every file holds one of the given contents.
Trees(contents) ==
    {f \in [Locs -> {NoEnt, Dir} \cup {File(c) : c \in contents}] :
        \A l \in Locs : f[l].k # "none" /\ Len(l) > 1 => f[Parent(l)].k = "dir"}

\* Files.getFiles(g), Files.getFolders(g), Files.any(g) or Files.new(g) on f.
Start(f, g, how, build) ==
    /\ fs = f
    /\ glob = g
    /\ factory = how
    /\ files = Build(f, g, how)
    /\ op = "new"
    /\ ok = TRUE
    /\ ret = UndefinedValue
    /\ arg = <<>>
    /\ fs0 = f
    /\ files0 = <<>>
    /\ calls = <<>>
    /\ handled = FALSE
    /\ aborted = FALSE
    /\ lenient = build
    /\ count = 0

MaxCalls == 2

\* What a call of the method that answered o returned.
Returned(name, o) ==
    IF ~o.ok THEN UndefinedValue
    ELSE IF name \in {"delete", "remove", "moveTo", "copyTo"} THEN NumberValue(o.ret)
    ELSE IF name = "exists" THEN BooleanValue(o.ret)
    ELSE IF name = "all" THEN ArrayValue(o.ret)
    ELSE IF name = "read" THEN (IF o.ret = Null THEN NullValue ELSE StringValue(o.ret))
    ELSE UndefinedValue

\* A call of a method with the outcome o.
Call(name, args, o) ==
    /\ ~o.out
    /\ fs' = o.fs
    /\ files' = o.files
    /\ op' = name
    /\ ok' = o.ok
    /\ ret' = Returned(name, o)
    /\ arg' = args
    /\ fs0' = fs
    /\ files0' = files
    /\ calls' = o.calls
    /\ handled' = o.handled
    /\ aborted' = (aborted \/ (name \in {"delete", "remove", "moveTo"} /\ ~o.ok))
    /\ count' = IF count < MaxCalls THEN count + 1 ELSE count
    /\ UNCHANGED <<glob, factory, lenient>>

MaxDestLen == 2
MaxContentLen == 2
DestAlphabet == {"a", "b", "/"}
ContentAlphabet == {"1", "HS", "LS"}

\* The destinations tried: those that lead into the modelled tree.
Destinations == {d \in StringsUpTo(DestAlphabet, MaxDestLen) : Known(Loc(d))}
Contents == StringsUpTo(ContentAlphabet, MaxContentLen)

\* The faults tried on a batch over list: none, or at one of its entries.
Faults(list) == 0..(IF Len(list) = 0 THEN 1 ELSE Len(list))

Delete == \E fault \in 0..Len(files) :
    Call("delete", <<>>, delete(fs, files, fault))

Remove == \E fault \in 0..Len(files) :
    Call("remove", <<>>, delete(fs, files, fault))

MoveTo == \E pDestination \in Destinations, fault \in 0..Len(files) :
    Call("moveTo", <<StringValue(pDestination)>>,
          moveTo(fs, files, pDestination, lenient, fault))

CopyTo == \E pDestination \in Destinations, fault \in 0..Len(files) :
    Call("copyTo", <<StringValue(pDestination)>>,
          copyTo(fs, files, pDestination, fault))

CreateFolders == \E fault \in Faults(files) :
    Call("createFolders", <<>>, createFolders(fs, glob, files, fault))

EnsureFolders == \E fault \in Faults(files) :
    Call("ensureFolders", <<>>, createFolders(fs, glob, files, fault))

Exists == Call("exists", <<>>, exists(fs, files))

All == \E pHandler \in PathHandlers :
    Call("all", <<FunctionValue(pHandler)>>, all(fs, files, pHandler))

Read == \E fault \in {0, 1} :
    Call("read", <<>>, read(fs, glob, files, fault))

Write == \E pContent \in Contents, fault \in {0, 1, 2} :
    Call("write", <<StringValue(pContent)>>, write(fs, glob, files, pContent, fault))

\* append is tried while the file is short: it would grow without end.
MaxAppendTo == 1
Short(f, p) ==
    Known(Loc(p)) /\ (Kind(f, Loc(p)) = "file" => Len(At(f, Loc(p)).d) <= MaxAppendTo)

AppendTo == \E pContent \in Contents, pNewLine \in BOOLEAN, fault \in {0, 1, 2} :
    /\ Short(fs, glob)
    /\ Call("append", <<StringValue(pContent), BooleanValue(pNewLine)>>,
            append(fs, glob, files, pContent, pNewLine, fault))

Alter == \E pHandler \in TextHandlers, fault \in {0, 1, 2, 3} :
    Call("alter", <<FunctionValue(pHandler)>>, alter(fs, glob, files, pHandler, fault))

DefaultSpaces == 2

AlterJSON == \E pHandler \in JsonHandlers, pSpaces \in {NumberValue(DefaultSpaces), NullValue},
                fault \in {0, 1, 2, 3} :
    Call("alterJSON", <<FunctionValue(pHandler), pSpaces>>,
         alterJSON(fs, glob, files, pHandler, pSpaces, fault))

\* The patterns instances are constructed with.
Patterns == {<<"a">>, <<"*">>, <<"*", "/", "*">>}

\* The trees the first specification starts on: every file holds its own
\* path, so that no two files are alike, and the last location is free, so
\* that a move or a copy has somewhere to go.
LastLoc == <<NameOrder[Len(NameOrder)], NameOrder[Len(NameOrder)]>>
StartTrees ==
    {[l \in Locs |-> IF f[l].k = "file" THEN File(Encode(JoinSegs(l))) ELSE f[l]] :
        f \in {g \in Trees({<<>>}) : g[LastLoc].k = "none"}}

Init == \E f \in StartTrees, g \in Patterns, how \in Factories, build \in BOOLEAN :
    Start(f, g, how, build)

Next ==
    \/ Delete
    \/ Remove
    \/ MoveTo
    \/ CopyTo
    \/ CreateFolders
    \/ EnsureFolders
    \/ Exists
    \/ All

Spec == Init /\ [][Next]_vars

\* The second specification: the content operations, with delete and the
\* operations that move no content, on an instance whose pattern names one
\* file (a or a/b) of a tree that holds nothing else.
Quote == "\""
InitialTexts ==
    { <<"1">>,
      <<"{", Quote, "a", Quote, ":", "1", "}">>,
      <<"{", Quote, "a", Quote, ":", "}">> }

SmallTrees ==
    {f \in Trees({Encode(t) : t \in InitialTexts}) :
        \A l \in Locs : f[l].k # "none" => l \in {<<NameOrder[1]>>, NameOrder}}

InitContent ==
    \E f \in SmallTrees, g \in {<<"a">>, <<"a", "/", "b">>}, how \in {"any", "new"} :
        Start(f, g, how, TRUE)

NextContent ==
    \/ Delete
    \/ Remove
    \/ CreateFolders
    \/ EnsureFolders
    \/ Exists
    \/ All
    \/ Read
    \/ Write
    \/ AppendTo
    \/ Alter
    \/ AlterJSON

SpecContent == InitContent /\ [][NextContent]_vars

\* The third specification: every operation from the second one's initial
\* states with moveTo and copyTo added, MaxCalls calls deep.
InitAll ==
    \E f \in SmallTrees, g \in {<<"a">>, <<"a", "/", "b">>}, how \in {"any", "new"} :
        Start(f, g, how, TRUE)

NextAll ==
    /\ count < MaxCalls
    /\ \/ Delete
       \/ Remove
       \/ MoveTo
       \/ CopyTo
       \/ CreateFolders
       \/ EnsureFolders
       \/ Exists
       \/ All
       \/ Read
       \/ Write
       \/ AppendTo
       \/ Alter
       \/ AlterJSON

SpecAll == InitAll /\ [][NextAll]_vars

\* The fourth specification: the destination rule alone, on every pair of
\* strings up to MaxPathLen characters long.
MaxPathLen == 3
PathAlphabet == {"a", "/", "."}
PathStrings == StringsUpTo(PathAlphabet, MaxPathLen)

InitResolve ==
    \E pDestination \in PathStrings, pFilePath \in PathStrings :
        /\ glob = <<>>
        /\ factory = "new"
        /\ fs = [l \in Locs |-> NoEnt]
        /\ files = <<>>
        /\ op = "input"
        /\ ok = TRUE
        /\ ret = UndefinedValue
        /\ arg = <<StringValue(pDestination), StringValue(pFilePath)>>
        /\ fs0 = fs
        /\ files0 = <<>>
        /\ calls = <<>>
        /\ handled = FALSE
        /\ aborted = FALSE
        /\ lenient = TRUE
        /\ count = 0

Resolve ==
    /\ op = "input"
    /\ op' = "resolve"
    /\ ret' = StringValue(targetDirectoryWithTrailingSlash(arg[1].s, arg[2].s))
    /\ UNCHANGED <<fs, glob, files, factory, ok, arg, fs0, files0, calls, handled,
                   aborted, lenient, count>>

SpecResolve == InitResolve /\ [][Resolve]_vars

----------------------------------------------------------------------------
(* The claims *)

Entries(list) == 1..Len(list)
Destination(i) == targetDirectoryWithTrailingSlash(arg[1].s, files0[i])
EndsWithSeparator(s) == s # <<>> /\ s[Len(s)] = "/"

\* C1: a moveTo(D) that returns, returns the length the list had and leaves
\* in its place, entry by entry and in order, the destination of each former
\* entry.
C1_MoveToReplacesPaths ==
    op = "moveTo" /\ ok =>
        /\ ret = NumberValue(Len(files0))
        /\ Len(files) = Len(files0)
        /\ \A i \in Entries(files0) : files[i] = Destination(i)

\* C1 happens: a completed move of two entries, each to a new path.
C1_Witness ==
    /\ op = "moveTo" /\ ok /\ Len(files0) = 2
    /\ \A i \in Entries(files0) : files[i] # files0[i]

\* C2: a delete() or remove() that returns, returns the length the list had,
\* leaves the list empty (exists() answers false) and has called the removal
\* primitive once on each entry, in order; called on an empty list it returns
\* 0 and changes nothing on disk.
C2_DeleteEmptiesPaths ==
    op \in {"delete", "remove"} /\ ok =>
        /\ ret = NumberValue(Len(files0))
        /\ files = <<>>
        /\ exists(fs, files).ret = FALSE
        /\ calls = files0
        /\ \A i \in Entries(files0) : ~existsSync(fs, files0[i])
        /\ files0 = <<>> => ret = NumberValue(0) /\ fs = fs0

\* C2 happens: a delete of three existing files.
C2_Witness ==
    /\ op = "delete" /\ ok /\ Len(files0) = 3
    /\ \A i \in Entries(files0) : isFile(fs0, files0[i])

\* C3: copyTo, read, write, append, alter, alterJSON, createFolders,
\* ensureFolders, exists and all leave the list as it was, whether they return
\* or throw, and a copyTo that returns, returns the length of that list.
C3_OnlyDeleteAndMoveChangePaths ==
    /\ op \in {"copyTo", "read", "write", "append", "alter", "alterJSON",
               "createFolders", "ensureFolders", "exists", "all"} => files = files0
    /\ op = "copyTo" /\ ok => ret = NumberValue(Len(files))

\* C3 happens: a copyTo of a non-empty list that copied something.
C3_Witness ==
    op = "copyTo" /\ ok /\ files # <<>> /\ fs # fs0

\* C4: the destination is D followed by the base name of the source when D
\* ends with a separator, and D itself in every other case.
C4_DestinationRule ==
    op = "resolve" =>
        ret = StringValue(IF EndsWithSeparator(arg[1].s)
                          THEN arg[1].s \o Basename(arg[2].s)
                          ELSE arg[1].s)

\* C5: after a moveTo that returns, on a list of existing entries, nothing
\* exists at any former entry and something exists at every entry of the list.
C5_MovedAway ==
    op = "moveTo" /\ ok /\ (\A i \in Entries(files0) : existsSync(fs0, files0[i])) =>
        /\ \A i \in Entries(files0) : ~existsSync(fs, files0[i])
        /\ \A i \in Entries(files) : existsSync(fs, files[i])

\* C5 as amended: something exists at every entry of the list, and nothing
\* exists at a former entry unless its destination is the entry itself.
C5_MovedAwayUnlessOntoItself ==
    op = "moveTo" /\ ok /\ (\A i \in Entries(files0) : existsSync(fs0, files0[i])) =>
        /\ \A i \in Entries(files0) :
              Loc(Destination(i)) # Loc(files0[i]) => ~existsSync(fs, files0[i])
        /\ \A i \in Entries(files) : existsSync(fs, files[i])

\* C5 happens: two existing entries moved into a directory.
C5_Witness ==
    /\ op = "moveTo" /\ ok /\ Len(files0) = 2 /\ EndsWithSeparator(arg[1].s)
    /\ \A i \in Entries(files0) : existsSync(fs0, files0[i]) /\ ~existsSync(fs, files0[i])

\* C6: an append(content, flag) that returns leaves a file holding the old
\* content (nothing, when no file was there), then a newline when a file was
\* there and the flag is set, then content.
C6_AppendNewlineRule ==
    op = "append" /\ ok =>
        LET old == fs0[Loc(glob)]
            was == old.k = "file"
        IN  fs[Loc(glob)] =
                File((IF was THEN old.d ELSE <<>>)
                     \o Encode((IF was /\ arg[2] = BooleanValue(TRUE) THEN <<"\n">> ELSE <<>>)
                               \o arg[1].s))

\* C6 happens: an append with the flag set to a file that holds something,
\* after an append that created it.
C6_Witness ==
    /\ op = "append" /\ ok /\ arg[2] = BooleanValue(TRUE) /\ arg[1].s # <<>>
    /\ fs0[Loc(glob)].k = "file" /\ fs0[Loc(glob)].d # <<>>

\* What read() returns in the current state.
ReadNow == read(fs, glob, files, 0).ret

\* No surrogate code unit without its partner.
WellFormed(s) ==
    \A i \in 1..Len(s) :
        /\ s[i] = "HS" => i < Len(s) /\ s[i + 1] = "LS"
        /\ s[i] = "LS" => i > 1 /\ s[i - 1] = "HS"

\* C7: after a write(X) that returns, read() returns X, the parent directory
\* exists; and read() returns null exactly when nothing exists at the pattern.
C7_WriteThenRead ==
    /\ op = "write" /\ ok => ReadNow = arg[1].s /\ Kind(fs, Parent(Loc(glob))) = "dir"
    /\ op = "read" /\ ok => (ret = NullValue <=> Kind(fs0, Loc(glob)) = "none")

\* C7 as amended: the same, for the strings X that hold no surrogate code unit
\* without its partner.
C7_WriteThenReadWellFormed ==
    /\ op = "write" /\ ok =>
          /\ WellFormed(arg[1].s) => ReadNow = arg[1].s
          /\ ReadNow = Decode(Encode(arg[1].s))
          /\ Kind(fs, Parent(Loc(glob))) = "dir"
    /\ op = "read" /\ ok => (ret = NullValue <=> Kind(fs0, Loc(glob)) = "none")

\* C7 happens: a write of a surrogate pair over a file that held something
\* else, in a directory the write created.
C7_Witness ==
    /\ op = "write" /\ ok /\ arg[1].s = <<"HS", "LS">>
    /\ Len(Loc(glob)) > 1 /\ Kind(fs0, Parent(Loc(glob))) = "none"

\* Whether the pattern, read as glob.sync reads it, matches the location l.
Matches(pGlob, l) ==
    /\ Len(Split(pGlob)) = Len(l)
    /\ \A i \in 1..Len(l) : SegMatch(Split(pGlob)[i], l[i])

\* Every entry of the list is of the kind the factory asked for.
KindsKept ==
    /\ factory = "getFiles" => \A i \in Entries(files) : Kind(fs, Loc(files[i])) = "file"
    /\ factory = "getFolders" => \A i \in Entries(files) : Kind(fs, Loc(files[i])) = "dir"

\* Right after construction: the files-only list is the matches that are
\* files, each once, the folders-only list the matches that are directories,
\* and the list of Files.new is empty.
ConstructedRight ==
    op = "new" =>
        LET wanted == IF factory = "getFiles" THEN {"file"}
                      ELSE IF factory = "getFolders" THEN {"dir"}
                      ELSE IF factory = "any" THEN {"file", "dir"}
                      ELSE {}
            hits == {l \in Locs : Matches(glob, l) /\ fs[l].k \in wanted}
        IN  /\ {Loc(files[i]) : i \in Entries(files)} = hits
            /\ Len(files) = Cardinality(hits)

TextBefore == Decode(fs0[Loc(glob)].d)

\* C9: alterJSON on a file that does not hold valid JSON throws, calls no
\* handler and leaves the filesystem as it was; on a file that holds valid
\* JSON, when it returns, the file holds the serialization of the handler's
\* answer for the parsed content, which parses back to that answer.
C9_AlterJSON ==
    op = "alterJSON" /\ Kind(fs0, Loc(glob)) = "file" =>
        LET parsed == JSONparse(TextBefore)
        IN  /\ ~parsed.ok => ~ok /\ ~handled /\ fs = fs0
            /\ parsed.ok /\ ok =>
                  LET answer == JsonHandler(arg[1].s[1], parsed.v)
                  IN  /\ handled
                      /\ fs[Loc(glob)] = File(Encode(JSONstringify(answer, arg[2])))
                      /\ JSONparse(ReadNow) = [ok |-> TRUE, v |-> answer]

\* C9 happens: {"a":1} altered by obj => ({...obj, k: 1}) parses back as
\* {"a":1,"k":1}.
C9_Witness ==
    /\ op = "alterJSON" /\ ok /\ arg[1] = FunctionValue("addK")
    /\ Kind(fs0, Loc(glob)) = "file"
    /\ TextBefore = <<"{", Quote, "a", Quote, ":", "1", "}">>
    /\ JSONparse(ReadNow).v = Obj(<< <<<<"a">>, Num(<<"1">>)>>, <<<<"k">>, Num(<<"1">>)>> >>)

\* Two path strings that lead to entries one inside the other, or to the same one.
Overlap(p, q) == IsPrefix(Loc(p), Loc(q)) \/ IsPrefix(Loc(q), Loc(p))

\* The tree at the path p is in f as it is in g.
SameBelow(f, g, p) == \A m \in Locs : IsPrefix(Loc(p), m) => f[m] = g[m]

\* A delete, moveTo or copyTo threw.
Aborted == op \in {"delete", "remove", "moveTo", "copyTo"} /\ ~ok

\* The paths the call used for entry i: the entry, and its destination.
Touched(i) ==
    IF op \in {"delete", "remove"} THEN {files0[i]} ELSE {files0[i], Destination(i)}

\* The call that threw at entry k = Len(calls) has invoked its primitive on
\* entries 1..k in order and on no other, leaves the list as it was, and
\* leaves the entries before k deleted, moved or copied.
StoppedAtEntry ==
    LET k == Len(calls)
    IN  /\ k >= 1
        /\ calls = SubSeq(files0, 1, k)
        /\ files = files0
        /\ \A i \in 1..(k - 1) :
              /\ op \in {"delete", "remove"} => ~existsSync(fs, files0[i])
              /\ op \in {"moveTo", "copyTo"} => existsSync(fs, Destination(i))
              /\ op = "moveTo" /\ Loc(Destination(i)) # Loc(files0[i])
                    => ~existsSync(fs, files0[i])

\* C10: a delete, moveTo or copyTo that throws at entry k stops there, as
\* above, and every entry after k is on disk as it was before the call.
C10_AbortsMidBatch ==
    Aborted =>
        /\ StoppedAtEntry
        /\ \A j \in (Len(calls) + 1)..Len(files0) : SameBelow(fs, fs0, files0[j])

\* C10 as amended: the same, an entry after k being as it was unless it
\* overlaps the source or the destination of one of the entries 1..k.
C10_AbortsMidBatchUnlessOverlap ==
    Aborted =>
        /\ StoppedAtEntry
        /\ \A j \in (Len(calls) + 1)..Len(files0) :
              (\A i \in 1..Len(calls) : \A p \in Touched(i) : ~Overlap(p, files0[j]))
                  => SameBelow(fs, fs0, files0[j])

\* C10 happens: a moveTo that throws at its second entry, the first one moved
\* and gone from its old place, which the list still names.
C10_Witness ==
    /\ op = "moveTo" /\ ~ok /\ Len(calls) = 2
    /\ existsSync(fs0, files0[1]) /\ ~existsSync(fs, files[1])

====
